---- MODULE Spec2Model ----
(***************************************************************************)
(* RSS OPML reader (scripts/rss.py): the pipeline of read_posts_for_date.  *)
(* One coroutine get_feed_posts per subscribed feed is run by              *)
(* asyncio.gather; every coroutine requests its feed, retries transient    *)
(* failures with backoff and filters the entries to one calendar day; the  *)
(* results are merged and sorted by publication time.                      *)
(*                                                                         *)
(* Time is counted in hours since 0001-01-01T00:00 (naive datetimes).      *)
(* The network is the environment: each GET is answered by a response or   *)
(* an exception drawn from the set `faults` of the run.  Spec has network  *)
(* faults only; SpecEscape adds failures inside the except handlers.       *)
(***************************************************************************)
EXTENDS Integers, Sequences, FiniteSets, TLC

\* ------------------------------------------------------------------ bounds
NFeeds == 2          \* feeds in the subscription list: 0..NFeeds
MaxEntries == 2      \* entries in one feed document: 0..MaxEntries

\* --------------------------------------------------------------- constants
MaxRetries == 2      \* get_feed_posts(max_retries=2)
HoursPerDay == 24    \* timedelta(days=1)

None == -1           \* Python's None for an absent *_parsed time

VARIABLES
    opml_file,    \* what is at the path given on the command line
    feeds,        \* the subscription list the file holds: sequence of [url]
    date_str,     \* --read argument: <<year, month, day>> as typed, <<>> when empty
    silent,       \* --silent
    faults,       \* the responses the network can give in this run
    kinds,        \* the kinds of entry the feed documents of this run hold
    titles,       \* the channel titles the feed documents of this run carry
    mainPc,       \* main thread: "main", "start", "gather", "done", "hint",
                  \* "exit1", "raised"
    output,       \* lines main and read_posts_for_date printed, in order
    window,       \* <<start_date, end_date>> once parsed
    tasks,        \* coroutines created for gather, in order: sequence of url
    pc,           \* per task: "created", "get", "sleep", "returned", "raised"
    attempt,      \* per task: loop variable `attempt`
    result,       \* per task: value the coroutine resolved with
    hist,         \* per task: responses received so far, oldest first
    requests,     \* per task: number of client.get calls issued
    slept,        \* per task: wait_time of every asyncio.sleep, in order
    served,       \* per task: in-window entries of the document it was served
    taskErr,      \* per task: lines the coroutine printed to sys.stderr
    errors_list,  \* the list shared by all coroutines (silent mode)
    mainErr,      \* lines read_posts_for_date printed to sys.stderr at the join
    collected,    \* task indices whose result the join loop has consumed
    all_posts,    \* merged posts
    pool,         \* connection pool study: number of coroutines per local state
    filterDoc,    \* entry filter study: the parsed document handed to the loop
    filterPosts,  \* entry filter study: what the coroutine returns for it
    description,  \* description study: the summary of the post being formatted
    shown,        \* description study: what the formatter appends for it
    reader,       \* home timeline study: "masto" or "bsky"
    pagePc,       \* home timeline study: "loop", "returned" or "raised"
    chunk,        \* home timeline study: the page the last request returned
    fetched,      \* home timeline study: items received so far
    page_results, \* home timeline study: `results`, the items kept and returned
    cropCall,     \* crop box study: the arguments of get_centered_crop_box
    cropBox,      \* crop box study: the box it returned
    submitted,    \* chat study: Input.Submitted messages posted and not yet handled
    input_disabled,\* chat study: message_input.disabled
    loading_message,\* chat study: self.loading_message, None or the indicator
    mounted,      \* chat study: loading indicators in the message container
    workers,      \* chat study: per worker started by run_worker, its state
    inflight,     \* chat study: workers whose thread is inside requests.post
    parent_message_id\* chat study: self.parent_message_id

\* what the steps of the pipeline model leave alone: the state of the other
\* studies of this module
chatVars == <<submitted, input_disabled, loading_message, mounted,
              workers, inflight, parent_message_id>>
otherVars == <<pool, filterDoc, filterPosts, description, shown, reader, pagePc, chunk,
               fetched, page_results, cropCall, cropBox, chatVars>>
inputVars == <<opml_file, feeds, date_str, silent, faults, kinds, titles, otherVars>>
taskVars == <<pc, attempt, result, hist, requests, slept, served, taskErr>>
mainVars == <<mainPc, output, window, tasks, mainErr, collected, all_posts>>
vars == <<inputVars, taskVars, mainVars, errors_list>>

\* ------------------------------------------------------- parse_date_argument
IsLeap(y) == (y % 4 = 0) /\ ((y % 100 # 0) \/ (y % 400 = 0))

DaysInMonth(y, m) ==
    IF m = 2 THEN (IF IsLeap(y) THEN 29 ELSE 28)
    ELSE IF m \in {4, 6, 9, 11} THEN 30 ELSE 31

RECURSIVE DaysBeforeMonth(_, _)
DaysBeforeMonth(y, m) ==
    IF m <= 1 THEN 0 ELSE DaysBeforeMonth(y, m - 1) + DaysInMonth(y, m - 1)

DaysBeforeYear(y) ==
    (y - 1) * 365 + ((y - 1) \div 4) - ((y - 1) \div 100) + ((y - 1) \div 400)

\* strptime(date_str, "%Y-%m-%d") raises ValueError unless this holds
ValidDate(d) ==
    /\ d[1] \in 1..9999
    /\ d[2] \in 1..12
    /\ d[3] \in 1..DaysInMonth(d[1], d[2])

\* midnight of the date, in hours
Midnight(d) ==
    (DaysBeforeYear(d[1]) + DaysBeforeMonth(d[1], d[2]) + d[3]) * HoursPerDay

parse_date_argument(d) == <<Midnight(d), Midnight(d) + HoursPerDay>>

\* ------------------------------------------------------------ the network
Resp(e, s, t) == [exc |-> e, status |-> s, timeoutMsg |-> t]
OkResp == Resp("none", 200, FALSE)
HttpResp(code) == Resp("none", code, FALSE)
ExcResp(e) == Resp(e, 0, FALSE)

StatusCodes == {403, 404, 429, 500}

ExceptionNames ==
    {"TimeoutException", "ConnectError", "UnsupportedProtocol",
     "TooManyRedirects", "InvalidURL", "SSLError", "RequestError", "Exception"}

AllResponses ==
    {OkResp} \cup {HttpResp(c) : c \in StatusCodes}
             \cup {ExcResp(e) : e \in ExceptionNames}
             \cup {Resp("RequestError", 0, TRUE)}


\* ancestors of an exception class (httpx._exceptions, ssl), itself included
Supers(e) ==
    CASE e = "HTTPStatusError" -> {"HTTPStatusError", "HTTPError", "Exception"}
      [] e = "TimeoutException" ->
            {"TimeoutException", "TransportError", "RequestError", "HTTPError", "Exception"}
      [] e = "ConnectError" ->
            {"ConnectError", "NetworkError", "TransportError", "RequestError",
             "HTTPError", "Exception"}
      [] e = "UnsupportedProtocol" ->
            {"UnsupportedProtocol", "TransportError", "RequestError", "HTTPError", "Exception"}
      [] e = "TooManyRedirects" ->
            {"TooManyRedirects", "RequestError", "HTTPError", "Exception"}
      [] e = "InvalidURL" -> {"InvalidURL", "Exception"}
      [] e = "SSLError" -> {"SSLError", "OSError", "Exception"}
      [] e = "RequestError" -> {"RequestError", "HTTPError", "Exception"}
      [] OTHER -> {e, "Exception"}

\* what the try body raises: client.get's exception, or raise_for_status's
Raised(r) ==
    IF r.exc # "none" THEN r.exc
    ELSE IF r.status \notin 200..299 THEN "HTTPStatusError"
    ELSE "none"

\* variant: the closing `except Exception` clause is missing
ExceptClauses_NoCatchAll ==
    <<"HTTPStatusError", "TimeoutException", "ConnectError", "UnsupportedProtocol",
      "TooManyRedirects", "InvalidURL", "SSLError", "RequestError">>

\* the except clauses of get_feed_posts, in source order
ExceptClauses ==
    <<"HTTPStatusError", "TimeoutException", "ConnectError", "UnsupportedProtocol",
      "TooManyRedirects", "InvalidURL", "SSLError", "RequestError", "Exception">>

\* index of the first clause that catches exception e; 0 when none does
Clause(e) ==
    LET hits == {j \in 1..Len(ExceptClauses) : ExceptClauses[j] \in Supers(e)}
    IN  IF hits = {} THEN 0
        ELSE CHOOSE j \in hits : \A h \in hits : j <= h

\* variant: the wait is computed from the loop variable, which counts from 0
wait_time_FromZero(attempt_) == attempt_ * 2

wait_time(attempt_) == (attempt_ + 1) * 2

\* variant: an HTTP status error is retried like a timeout
Retries_HttpToo(clause, r, attempt_, max_retries) ==
    CASE clause \in {"HTTPStatusError", "TimeoutException", "ConnectError", "SSLError"} ->
            attempt_ < max_retries
      [] clause = "RequestError" -> attempt_ < max_retries /\ r.timeoutMsg
      [] OTHER -> FALSE

\* variant: an unsupported protocol and an invalid URL are retried as well
Retries_UrlErrors(clause, r, attempt_, max_retries) ==
    CASE clause \in {"TimeoutException", "ConnectError", "SSLError",
                     "UnsupportedProtocol", "InvalidURL"} ->
            attempt_ < max_retries
      [] clause = "RequestError" -> attempt_ < max_retries /\ r.timeoutMsg
      [] OTHER -> FALSE

\* variant: the last allowed attempt is retried once more
Retries_OneMore(clause, r, attempt_, max_retries) ==
    CASE clause \in {"TimeoutException", "ConnectError", "SSLError"} ->
            attempt_ <= max_retries
      [] clause = "RequestError" -> attempt_ <= max_retries /\ r.timeoutMsg
      [] OTHER -> FALSE

\* does the clause that caught the exception sleep and `continue`?
Retries(clause, r, attempt_, max_retries) ==
    CASE clause \in {"TimeoutException", "ConnectError", "SSLError"} ->
            attempt_ < max_retries
      [] clause = "RequestError" -> attempt_ < max_retries /\ r.timeoutMsg
      [] OTHER -> FALSE

\* What one pass of the loop body does with the answer r of its GET:
\*   "posts" return the filtered posts, "retry" sleep wait and continue,
\*   "fail"  report an error and return [], "raise" propagate the exception.
Handle(r, attempt_, max_retries) ==
    LET e == Raised(r)
        j == Clause(e)
    IN  IF e = "none" THEN [op |-> "posts", clause |-> "none", wait |-> 0]
        ELSE IF j = 0 THEN [op |-> "raise", clause |-> e, wait |-> 0]
        ELSE IF Retries(ExceptClauses[j], r, attempt_, max_retries)
             THEN [op |-> "retry", clause |-> ExceptClauses[j],
                   wait |-> wait_time(attempt_)]
             ELSE [op |-> "fail", clause |-> ExceptClauses[j], wait |-> 0]

\* variant: in silent mode a retry warning is appended to errors_list
Sink_RetryRecorded(op, silent_) ==
    CASE op \in {"fail", "retry"} -> (IF silent_ THEN "errors_list" ELSE "stderr")
      [] OTHER -> "nowhere"

\* variant: a final error is appended to errors_list in verbose mode too
Sink_VerboseRecorded(op, silent_) ==
    CASE op = "fail" -> "errors_list"
      [] op = "retry" -> (IF silent_ THEN "nowhere" ELSE "stderr")
      [] OTHER -> "nowhere"

\* where a handler puts its line: a final error goes to errors_list in
\* silent mode and to sys.stderr otherwise; a retry warning is printed to
\* sys.stderr unless silent
Sink(op, silent_) ==
    CASE op = "fail" -> (IF silent_ THEN "errors_list" ELSE "stderr")
      [] op = "retry" -> (IF silent_ THEN "nowhere" ELSE "stderr")
      [] OTHER -> "nowhere"

\* the line a handler writes: a retry warning or a final error of the feed
Line(kind, url, clause, r, attempt_, wait) ==
    [kind |-> kind, url |-> url, clause |-> clause, status |-> r.status,
     attempt |-> attempt_, wait |-> wait]

\* --------------------------------------------------- entries and filtering
\* an entry of a parsed feed: its published_parsed and updated_parsed times
Entry(p, u) == [published_parsed |-> p, updated_parsed |-> u]

\* the kinds of entry a document holds, by their place around the window:
\* published in its first or last hour, just before or just after it;
\* without any time; with an updated time only; published after the window
\* but updated inside it
EntryKinds == {"first", "last", "before", "after", "undated", "updated", "stale"}

EntryOf(kind, w) ==
    CASE kind = "first" -> Entry(w[1], None)
      [] kind = "last" -> Entry(w[2] - 1, None)
      [] kind = "before" -> Entry(w[1] - 1, None)
      [] kind = "after" -> Entry(w[2], None)
      [] kind = "undated" -> Entry(None, None)
      [] kind = "updated" -> Entry(None, w[1])
      [] kind = "stale" -> Entry(w[2], w[1])


\* the documents of a run: up to MaxEntries entries of the run's kinds,
\* given as the sequence of their kinds
Shapes == UNION {[1..n -> kinds] : n \in 0..MaxEntries}

\* the parsed document of a shape, for the window <<s, e>>
Body(shape, w) == [k \in 1..Len(shape) |-> EntryOf(shape[k], w)]

\* a channel without a title element
NoTitle == "<no title>"
\* the placeholder of get_feed_posts for such a channel ("Неизвестная лента")
UnknownFeed == "Unknown feed"

\* what feedparser.parse returns: the channel with its title (NoTitle when
\* it has none) and the entries
Document(title, shape, w) == [feed |-> [title |-> title], entries |-> Body(shape, w)]

\* feed.feed.get("title", "Неизвестная лента")
feed_title(doc) == IF doc.feed.title = NoTitle THEN UnknownFeed ELSE doc.feed.title

\* variant: the updated time is preferred to the published time
published_time_UpdatedFirst(entry) ==
    IF entry.updated_parsed # None THEN entry.updated_parsed
    ELSE IF entry.published_parsed # None THEN entry.published_parsed
    ELSE None

published_time(entry) ==
    IF entry.published_parsed # None THEN entry.published_parsed
    ELSE IF entry.updated_parsed # None THEN entry.updated_parsed
    ELSE None

\* variant: the end of the period is taken as inclusive
InPeriod_EndInclusive(t, start_date, end_date) ==
    t # None /\ start_date <= t /\ t <= end_date

InPeriod(t, start_date, end_date) ==
    t # None /\ start_date <= t /\ t < end_date

Post(url, title, k, t) ==
    [feed |-> url, feed_title |-> title, entry |-> k, published |-> t]

\* the loop over feed.entries: the posts of entries k.. of the document, in
\* order
RECURSIVE FilterFrom(_, _, _, _, _)
FilterFrom(url, doc, k, start_date, end_date) ==
    IF k > Len(doc.entries) THEN <<>>
    ELSE LET t == published_time(doc.entries[k])
             rest == FilterFrom(url, doc, k + 1, start_date, end_date)
         IN  IF InPeriod(t, start_date, end_date)
             THEN <<Post(url, feed_title(doc), k, t)>> \o rest
             ELSE rest

FilterEntries(url, doc, w) == FilterFrom(url, doc, 1, w[1], w[2])

\* the in-window entries of a feed document, stated without the loop:
\* an entry counts with its published time, or its updated time when it
\* has no published time, if that time lies in [start, end)
InWindowEntries(url, title, body, w) ==
    {Post(url, title, k, IF body[k].published_parsed # None
                  THEN body[k].published_parsed ELSE body[k].updated_parsed) :
        k \in {j \in 1..Len(body) :
                 LET t == IF body[j].published_parsed # None
                          THEN body[j].published_parsed ELSE body[j].updated_parsed
                 IN  t # None /\ w[1] <= t /\ t < w[2]}}

\* ------------------------------------------------------- merge and sort
\* variant: a post is put before the posts of equal time
RECURSIVE InsertByPublished_BeforeEqual(_, _)
InsertByPublished_BeforeEqual(sorted, p) ==
    IF sorted = <<>> THEN <<p>>
    ELSE IF sorted[Len(sorted)].published < p.published THEN Append(sorted, p)
    ELSE Append(InsertByPublished_BeforeEqual(SubSeq(sorted, 1, Len(sorted) - 1), p),
                sorted[Len(sorted)])

\* list.sort(key=published): stable, ascending
RECURSIVE InsertByPublished(_, _)
InsertByPublished(sorted, p) ==
    IF sorted = <<>> THEN <<p>>
    ELSE IF sorted[Len(sorted)].published <= p.published THEN Append(sorted, p)
    ELSE Append(InsertByPublished(SubSeq(sorted, 1, Len(sorted) - 1), p),
                sorted[Len(sorted)])

RECURSIVE SortFrom(_, _, _)
SortFrom(posts, k, acc) ==
    IF k > Len(posts) THEN acc
    ELSE SortFrom(posts, k + 1, InsertByPublished(acc, posts[k]))

\* variant: the posts are left in arrival order
SortByPublished_Unsorted(posts) == posts

SortByPublished(posts) == SortFrom(posts, 1, <<>>)

\* values a coroutine resolves with
ListResult(posts) == [type |-> "list", posts |-> posts]
ExceptionResult == [type |-> "exception", posts |-> <<>>]
NoResult == [type |-> "none", posts |-> <<>>]

\* variant: gather without return_exceptions re-raises a task's exception
Gather_Propagate(res) ==
    [raises |-> \E k \in 1..Len(res) : res[k].type = "exception",
     results |-> [k \in 1..Len(res) |-> res[k]]]

\* asyncio.gather(*tasks, return_exceptions=True): never raises for a task;
\* the results in task order, an exception taking the place of a value
Gather(res) ==
    [raises |-> FALSE, results |-> [k \in 1..Len(res) |-> res[k]]]

\* variant: the loop stops at the first feed that brought nothing
RECURSIVE ExtendAll_StopAtEmpty(_, _)
ExtendAll_StopAtEmpty(results, k) ==
    IF k > Len(results) \/ results[k].posts = <<>> THEN <<>>
    ELSE results[k].posts \o ExtendAll_StopAtEmpty(results, k + 1)

\* the loop over results: all_posts.extend(result) for every list
RECURSIVE ExtendAll(_, _)
ExtendAll(results, k) ==
    IF k > Len(results) THEN <<>>
    ELSE (IF results[k].type = "list" THEN results[k].posts ELSE <<>>)
             \o ExtendAll(results, k + 1)

\* the loop over results: one error line for every exception
RECURSIVE JoinErrors(_, _)
JoinErrors(results, k) ==
    IF k > Len(results) THEN <<>>
    ELSE (IF results[k].type = "exception"
          THEN <<[kind |-> "error", url |-> None, clause |-> "join", status |-> 0,
                  attempt |-> 0, wait |-> 0]>>
          ELSE <<>>) \o JoinErrors(results, k + 1)

\* variant: the first feed of the subscription gets no coroutine
CreateTasks_SkipFirst(fs) == [k \in 1..(Len(fs) - 1) |-> fs[k + 1].url]

\* the coroutines created for gather: one per feed, in subscription order
CreateTasks(fs) == [k \in 1..Len(fs) |-> fs[k].url]

\* ------------------------------------------------------------------ output
\* one printed line: the stream, what the line is, and the number it shows
\* (a count, or the position of the post or error it shows)
Out(stream, kind, arg) == [stream |-> stream, kind |-> kind, arg |-> arg]

\* one line per element of a list of n elements
Each(stream, kind, n) == [j \in 1..n |-> Out(stream, kind, j)]

\* variant: an unparsable file is read as an empty subscription list
parse_opml_Lenient(file, outlines) ==
    IF file = "ok" THEN [exit |-> FALSE, err |-> "none", feeds |-> outlines]
    ELSE [exit |-> FALSE, err |-> "none", feeds |-> <<>>]

\* parse_opml: the outline elements with an xmlUrl, or a message on
\* sys.stderr and sys.exit(1) for ET.ParseError, FileNotFoundError and any
\* other exception
parse_opml(file, outlines) ==
    CASE file = "ok" -> [exit |-> FALSE, err |-> "none", feeds |-> outlines]
      [] file = "malformed" -> [exit |-> TRUE, err |-> "ParseError", feeds |-> <<>>]
      [] file = "missing" -> [exit |-> TRUE, err |-> "FileNotFoundError", feeds |-> <<>>]
      [] OTHER -> [exit |-> TRUE, err |-> "Exception", feeds |-> <<>>]

\* main with neither --list nor a non-empty --read: four lines of hints
\* unless silent
Hint(silent_) == IF silent_ THEN <<>> ELSE Each("stdout", "hint", 4)

\* variant: the progress lines are printed in silent mode too
Progress_Always(n, silent_) ==
    <<Out("stdout", "searching", 0), Out("stdout", "dashes", 0)>>
        \o Each("stdout", "queued", n) \o <<Out("stdout", "loading", n)>>

\* what read_posts_for_date prints before the join unless silent: the date
\* it searches, a line of dashes, one line per feed put in the queue, the number of
\* feeds it loads
Progress(n, silent_) ==
    IF silent_ THEN <<>>
    ELSE <<Out("stdout", "searching", 0), Out("stdout", "dashes", 0)>>
            \o Each("stdout", "queued", n) \o <<Out("stdout", "loading", n)>>

\* format_posts_markdown: heading and count, then either the statement that
\* no post was found or a rule and one section per post
format_posts_markdown(posts) ==
    <<Out("stdout", "heading", 0), Out("stdout", "total", Len(posts))>>
        \o (IF posts = <<>> THEN <<Out("stdout", "none-found", 0)>>
            ELSE <<Out("stdout", "rule", 0)>> \o Each("stdout", "post", Len(posts)))

\* variant: the plain report has no branch for an empty list
RenderPlain_NoEmptyNote(posts, silent_) ==
    (IF silent_ THEN <<>>
     ELSE <<Out("stdout", "found", Len(posts)), Out("stdout", "equals", 0)>>)
        \o Each("stdout", "post", Len(posts))

\* the plain report: the count and a line of equals signs unless silent, then either the
\* statement that no post was found or one block per post
RenderPlain(posts, silent_) ==
    (IF silent_ THEN <<>>
     ELSE <<Out("stdout", "found", Len(posts)), Out("stdout", "equals", 0)>>)
        \o (IF posts = <<>> THEN <<Out("stdout", "none-found", 0)>>
            ELSE Each("stdout", "post", Len(posts)))

\* the errors collected in silent mode, on sys.stderr: a heading and one
\* line per element of errors_list; nothing when the list is empty
ErrorSummary(errs, silent_) ==
    IF silent_ /\ errs # <<>>
    THEN <<Out("stderr", "summary", Len(errs))>> \o Each("stderr", "summary-entry", Len(errs))
    ELSE <<>>

\* variant: the error summary is printed before the report
Report_SummaryFirst(posts, errs, silent_, markdown_) ==
    ErrorSummary(errs, silent_)
        \o (IF markdown_ THEN format_posts_markdown(posts) ELSE RenderPlain(posts, silent_))

\* what read_posts_for_date prints after the sort: the report in the chosen
\* format, then the error summary (each return path prints it last)
Report(posts, errs, silent_, markdown_) ==
    (IF markdown_ THEN format_posts_markdown(posts) ELSE RenderPlain(posts, silent_))
        \o ErrorSummary(errs, silent_)

\* ------------------------------------------------------------------ inputs
\* --read arguments: a leap day, two strings strptime rejects, and the
\* empty string
Dates == {<<2024, 2, 29>>, <<2025, 2, 29>>, <<2025, 13, 1>>, <<>>}

\* the path names a well-formed OPML file, nothing, a file that is not
\* well-formed XML, or something that cannot be read as a file
OpmlFiles == {"ok", "missing", "malformed", "unreadable"}

\* The network and the documents of a run.  A run with one feed meets every
\* response and every kind of entry; a run with several feeds meets either
\* one terminal fault and five kinds of entry, or a terminal fault, a
\* retried fault and two kinds of entry.
Environments(n) ==
    IF n <= 1
    THEN {[faults |-> AllResponses, kinds |-> EntryKinds,
           titles |-> {"Blog", NoTitle}]}
    ELSE {[faults |-> {OkResp, HttpResp(404)},
           kinds |-> {"first", "last", "before", "after", "updated"},
           titles |-> {"Blog"}],
          [faults |-> {OkResp, HttpResp(429), ExcResp("TimeoutException")},
           kinds |-> {"first", "after"},
           titles |-> {NoTitle}]}

Subscription(n) == [k \in 1..n |-> [url |-> k]]

\* the connection pool study is not run: no coroutine in it
PoolOff == pool = <<>>

\* the entry filter study is not run
FilterOff == filterDoc = <<>> /\ filterPosts = <<>>

\* the description study is not run
MarkdownOff == description = <<>> /\ shown = <<>>

\* the home timeline study is not run
TimelineOff == reader = <<>> /\ pagePc = <<>> /\ chunk = <<>> /\ fetched = <<>> /\ page_results = <<>>

\* the crop box study is not run
CropOff == cropCall = <<>> /\ cropBox = <<>>

\* the chat study is not run
ChatOff ==
    /\ submitted = <<>> /\ input_disabled = <<>> /\ loading_message = <<>>
    /\ mounted = <<>> /\ workers = <<>> /\ inflight = <<>> /\ parent_message_id = <<>>

Init ==
    /\ PoolOff /\ FilterOff /\ MarkdownOff /\ TimelineOff /\ CropOff /\ ChatOff
    /\ opml_file \in OpmlFiles
    /\ \E n \in 0..(IF opml_file = "ok" THEN NFeeds ELSE 0) :
          /\ feeds = Subscription(n)
          /\ \E env \in Environments(n) :
                /\ faults = env.faults
                /\ kinds = env.kinds
                /\ titles = env.titles
    /\ date_str \in Dates
    /\ silent \in BOOLEAN
    /\ mainPc = "main"
    /\ output = <<>>
    /\ window = <<0, 0>>
    /\ tasks = <<>>
    /\ pc = <<>>
    /\ attempt = <<>>
    /\ result = <<>>
    /\ hist = <<>>
    /\ requests = <<>>
    /\ slept = <<>>
    /\ served = <<>>
    /\ taskErr = <<>>
    /\ errors_list = <<>>
    /\ mainErr = <<>>
    /\ collected = <<>>
    /\ all_posts = <<>>

\* ----------------------------------------------------------------- actions
\* main with --read and without --list, up to the call of
\* async_read_posts_wrapper: exit 1 when the path does not exist or
\* parse_opml fails; the hints when the --read argument is empty
Main ==
    /\ mainPc = "main"
    /\ LET parsed == parse_opml(opml_file, feeds)
       IN  IF opml_file = "missing"
           THEN /\ mainPc' = "exit1"
                /\ output' = Append(output, Out("stderr", "not-found", 0))
           ELSE IF parsed.exit
           THEN /\ mainPc' = "exit1"
                /\ output' = Append(output, Out("stderr", parsed.err, 0))
           ELSE IF date_str # <<>>
           THEN /\ mainPc' = "start"
                /\ output' = output
           ELSE /\ mainPc' = "hint"
                /\ output' = output \o Hint(silent)
    /\ UNCHANGED <<inputVars, taskVars, errors_list,
                   window, tasks, mainErr, collected, all_posts>>

\* read_posts_for_date up to `await asyncio.gather`: parse the date (exit 1
\* when it is invalid), print the progress lines, create one coroutine per
\* feed
Launch ==
    /\ mainPc = "start"
    /\ IF ~ValidDate(date_str)
       THEN /\ mainPc' = "exit1"
            /\ output' = Append(output, Out("stderr", "bad-date", 0))
            /\ UNCHANGED <<window, tasks, taskVars>>
       ELSE /\ mainPc' = "gather"
            /\ output' = output \o Progress(Len(feeds), silent)
            /\ window' = parse_date_argument(date_str)
            /\ tasks' = CreateTasks(feeds)
            /\ pc' = [k \in 1..Len(tasks') |-> "created"]
            /\ attempt' = [k \in 1..Len(tasks') |-> 0]
            /\ result' = [k \in 1..Len(tasks') |-> NoResult]
            /\ hist' = [k \in 1..Len(tasks') |-> <<>>]
            /\ requests' = [k \in 1..Len(tasks') |-> 0]
            /\ slept' = [k \in 1..Len(tasks') |-> <<>>]
            /\ served' = [k \in 1..Len(tasks') |-> {}]
            /\ taskErr' = [k \in 1..Len(tasks') |-> <<>>]
    /\ UNCHANGED <<inputVars, errors_list, mainErr, collected, all_posts>>

\* the event loop starts coroutine k: first pass of the loop, up to `await client.get`
StartTask(k) ==
    /\ mainPc = "gather"
    /\ pc[k] = "created"
    /\ pc' = [pc EXCEPT ![k] = "get"]
    /\ requests' = [requests EXCEPT ![k] = @ + 1]
    /\ UNCHANGED <<inputVars, mainVars, errors_list,
                   attempt, result, hist, slept, served, taskErr>>

\* the GET of coroutine k is answered by r (with document body when it is a
\* success); the coroutine runs on to its next await or to its end
Respond(k, r, title, shape) ==
    /\ pc[k] = "get"
    /\ LET h == Handle(r, attempt[k], MaxRetries)
           doc == Document(title, shape, window)
           url == tasks[k]
           line == Line(IF h.op = "retry" THEN "retry" ELSE "error",
                        url, h.clause, r, attempt[k] + 1, h.wait)
       IN  /\ hist' = [hist EXCEPT ![k] = Append(@, r)]
           /\ pc' = [pc EXCEPT ![k] =
                        CASE h.op = "retry" -> "sleep"
                          [] h.op = "raise" -> "raised"
                          [] OTHER -> "returned"]
           /\ result' = [result EXCEPT ![k] =
                        CASE h.op = "posts" -> ListResult(FilterEntries(url, doc, window))
                          [] h.op = "fail" -> ListResult(<<>>)
                          [] h.op = "raise" -> ExceptionResult
                          [] OTHER -> @]
           /\ served' = [served EXCEPT ![k] =
                        IF h.op = "posts"
                        THEN InWindowEntries(url, IF title = NoTitle THEN UnknownFeed
                                                  ELSE title, doc.entries, window)
                        ELSE @]
           /\ slept' = [slept EXCEPT ![k] =
                        IF h.op = "retry" THEN Append(@, h.wait) ELSE @]
           /\ taskErr' = [taskErr EXCEPT ![k] =
                        IF Sink(h.op, silent) = "stderr" THEN Append(@, line) ELSE @]
           /\ errors_list' =
                        IF Sink(h.op, silent) = "errors_list" THEN Append(errors_list, line)
                        ELSE errors_list
    /\ UNCHANGED <<inputVars, mainVars, attempt, requests>>

\* asyncio.sleep(wait_time) of coroutine k is over: `continue` with the next
\* attempt, up to `await client.get`
Wake(k) ==
    /\ pc[k] = "sleep"
    /\ pc' = [pc EXCEPT ![k] = "get"]
    /\ attempt' = [attempt EXCEPT ![k] = @ + 1]
    /\ requests' = [requests EXCEPT ![k] = @ + 1]
    /\ UNCHANGED <<inputVars, mainVars, errors_list,
                   result, hist, slept, served, taskErr>>

\* variant: the join returns with the first coroutine that is resolved
GatherDone_FirstCompleted(pcs) ==
    pcs = <<>> \/ \E k \in 1..Len(pcs) : pcs[k] \in {"returned", "raised"}

\* variant: the join never returns
GatherDone_Never(pcs) == FALSE

\* variant: the join is not awaited
GatherDone_NoWait(pcs) == TRUE

\* `await asyncio.gather(*tasks)` resumes read_posts_for_date when every
\* coroutine handed to it is resolved
GatherDone(pcs) == \A k \in 1..Len(pcs) : pcs[k] \in {"returned", "raised"}

\* gather returns once every coroutine is resolved; the results are merged,
\* exceptions reported, the posts sorted, the report and the error summary
\* printed.  The --markdown flag is read here and nowhere else, so it is an
\* input of this step.
Merge(markdown) ==
    /\ mainPc = "gather"
    /\ GatherDone(pc)
    /\ LET g == Gather(result)
           results == g.results
       IN  IF g.raises
           THEN /\ mainPc' = "raised"
                /\ UNCHANGED <<all_posts, collected, errors_list, mainErr, output>>
           ELSE /\ mainPc' = "done"
                /\ all_posts' = SortByPublished(ExtendAll(results, 1))
                /\ collected' = [k \in 1..Len(results) |-> tasks[k]]
                /\ IF silent
                   THEN /\ errors_list' = errors_list \o JoinErrors(results, 1)
                        /\ mainErr' = mainErr
                   ELSE /\ mainErr' = mainErr \o JoinErrors(results, 1)
                        /\ errors_list' = errors_list
                /\ output' = output
                        \o Each("stderr", "join-error", Len(mainErr'))
                        \o Report(all_posts', errors_list', silent, markdown)
    /\ UNCHANGED <<inputVars, taskVars, window, tasks>>

Next ==
    \/ Main
    \/ Launch
    \/ \E k \in 1..Len(tasks) : StartTask(k)
    \/ \E k \in 1..Len(tasks) : \E r \in faults :
          \E title \in (IF Raised(r) = "none" THEN titles ELSE {NoTitle}) :
             \E shape \in (IF Raised(r) = "none" THEN Shapes ELSE {<<>>}) :
                Respond(k, r, title, shape)
    \/ \E k \in 1..Len(tasks) : Wake(k)
    \/ \E markdown \in BOOLEAN : Merge(markdown)

Spec == Init /\ [][Next]_vars

\* A statement of an except handler is outside every try: when the print to
\* sys.stderr of the handler of answer r fails, the exception leaves the
\* coroutine.  Handlers print only when not silent.
Escape(k, r) ==
    /\ pc[k] = "get"
    /\ ~silent
    /\ Sink(Handle(r, attempt[k], MaxRetries).op, silent) = "stderr"
    /\ hist' = [hist EXCEPT ![k] = Append(@, r)]
    /\ pc' = [pc EXCEPT ![k] = "raised"]
    /\ result' = [result EXCEPT ![k] = ExceptionResult]
    /\ UNCHANGED <<inputVars, mainVars, errors_list,
                   attempt, requests, slept, served, taskErr>>

NextEscape ==
    \/ Next
    \/ \E k \in 1..Len(tasks) : \E r \in faults : Escape(k, r)

\* the runs in which handlers of get_feed_posts can fail as well
SpecEscape == Init /\ [][NextEscape]_vars

\* ---------------------------------------------------------- connection pool
\* The pipeline at the level of the client's connection pool, for more feeds
\* than connections.  The coroutines are counted per local state, not named.
\* Every feed of this study is healthy: a request that has a connection is
\* answered with the document, after any delay.  A request that waits for a
\* connection while the pool stays full for the pool timeout is ended by
\* httpx.PoolTimeout, a TimeoutException.
MaxConnections == 5  \* httpx.Limits(max_connections=5)
PoolFeeds == 6       \* feeds in the subscription list of the study: 0..PoolFeeds

PoolState(p, a) == [pc |-> p, attempt |-> a]
PoolStates ==
    {PoolState("created", 0), PoolState("failed", 0)}
        \cup {PoolState(p, a) : p \in {"waiting", "open", "posts"}, a \in 0..MaxRetries}
        \cup {PoolState("sleep", a) : a \in 0..(MaxRetries - 1)}

\* the rest of the model while the study runs: the pipeline is not started
RssOff ==
    /\ opml_file = "ok" /\ feeds = <<>> /\ date_str = <<>> /\ silent = TRUE
    /\ faults = {} /\ kinds = {} /\ titles = {}
    /\ mainPc = "main" /\ output = <<>> /\ window = <<0, 0>> /\ tasks = <<>>
    /\ pc = <<>> /\ attempt = <<>> /\ result = <<>> /\ hist = <<>>
    /\ requests = <<>> /\ slept = <<>> /\ served = <<>> /\ taskErr = <<>>
    /\ errors_list = <<>> /\ mainErr = <<>> /\ collected = <<>> /\ all_posts = <<>>

rssVars == <<opml_file, feeds, date_str, silent, faults, kinds, titles,
             taskVars, mainVars, errors_list>>

\* gather has started n coroutines, none has run yet
InitPool ==
    /\ RssOff /\ FilterOff /\ MarkdownOff /\ TimelineOff /\ CropOff /\ ChatOff
    /\ \E n \in 0..PoolFeeds :
          pool = [s \in PoolStates |-> IF s = PoolState("created", 0) THEN n ELSE 0]

\* connections in use: one per request that is being sent or answered
OpenConnections ==
    pool[PoolState("open", 0)] + pool[PoolState("open", 1)] + pool[PoolState("open", 2)]

\* variant: the pool opens a connection for every request
CanOpen_NoLimit(open) == TRUE

\* the pool hands out a connection while fewer than max_connections are in
\* use
CanOpen(open) == open < MaxConnections

\* one coroutine goes from local state `from` to local state `to`
PoolMove(from, to) ==
    /\ pool[from] > 0
    /\ pool' = [pool EXCEPT ![from] = @ - 1, ![to] = @ + 1]
    /\ UNCHANGED <<rssVars, filterDoc, filterPosts, description, shown, reader, pagePc, chunk, fetched, page_results, cropCall, cropBox, chatVars>>

\* a coroutine runs up to `await client.get`: its request asks for a connection
PoolStart == PoolMove(PoolState("created", 0), PoolState("waiting", 0))

\* a waiting request is given a connection
PoolAcquire(a) ==
    /\ CanOpen(OpenConnections)
    /\ PoolMove(PoolState("waiting", a), PoolState("open", a))

\* the pool stayed full for the pool timeout: the request ends with
\* TimeoutException, which get_feed_posts retries or gives up on
PoolTimeout(a) ==
    /\ ~CanOpen(OpenConnections)
    /\ LET h == Handle(ExcResp("TimeoutException"), a, MaxRetries)
       IN  PoolMove(PoolState("waiting", a),
                    IF h.op = "retry" THEN PoolState("sleep", a)
                    ELSE PoolState("failed", 0))

\* the document has arrived: the connection is free, the coroutine returns
\* its posts
PoolAnswer(a) == PoolMove(PoolState("open", a), PoolState("posts", a))

\* the backoff sleep is over: next attempt
PoolWake(a) == PoolMove(PoolState("sleep", a), PoolState("waiting", a + 1))

NextPool ==
    \/ PoolStart
    \/ \E a \in 0..MaxRetries : PoolAcquire(a)
    \/ \E a \in 0..MaxRetries : PoolTimeout(a)
    \/ \E a \in 0..MaxRetries : PoolAnswer(a)
    \/ \E a \in 0..(MaxRetries - 1) : PoolWake(a)

SpecPool == InitPool /\ [][NextPool]_vars

\* ------------------------------------------------------------ entry filter
\* The loop of get_feed_posts over feed.entries as a function of the parsed
\* document: every combination of published_parsed and updated_parsed, each
\* absent or at one of five hours around the requested day.
FilterWindow == parse_date_argument(<<2024, 2, 29>>)

FilterTimes ==
    {None, FilterWindow[1] - 1, FilterWindow[1], FilterWindow[1] + 1,
     FilterWindow[2] - 1, FilterWindow[2]}

FilterDocs ==
    UNION {[1..n -> {Entry(p, u) : p \in FilterTimes, u \in FilterTimes}] :
              n \in 0..MaxEntries}

InitFilter ==
    /\ RssOff /\ PoolOff /\ MarkdownOff /\ TimelineOff /\ CropOff /\ ChatOff
    /\ \E entries \in FilterDocs :
          filterDoc = [feed |-> [title |-> NoTitle], entries |-> entries]
    /\ filterPosts = NoResult

\* the GET was answered with the document: the success path of the first
\* attempt, from feedparser.parse to `return posts`
ApplyFilter ==
    /\ filterPosts = NoResult
    /\ Handle(OkResp, 0, MaxRetries).op = "posts"
    /\ filterPosts' = ListResult(FilterEntries(1, filterDoc, FilterWindow))
    /\ UNCHANGED <<rssVars, pool, filterDoc, description, shown, reader, pagePc, chunk, fetched, page_results, cropCall, cropBox, chatVars>>

NextFilter == ApplyFilter

SpecFilter == InitFilter /\ [][NextFilter]_vars

\* ======================================================== description study
\* format_posts_markdown, the description of one post. A text is a sequence
\* of runs [ch, n]: n times the character ch; "<" and ">" are kept one per
\* run, runs of other characters are maximal.
MaxRuns == 4

Run(ch, n) == [ch |-> ch, n |-> n]
Markup == {"<", ">"}

\* string concatenation
Join(a, b) ==
    IF a = <<>> \/ b = <<>> THEN a \o b
    ELSE IF a[Len(a)].ch = b[1].ch /\ a[Len(a)].ch \notin Markup
         THEN SubSeq(a, 1, Len(a) - 1) \o <<Run(b[1].ch, a[Len(a)].n + b[1].n)>>
              \o SubSeq(b, 2, Len(b))
         ELSE a \o b

\* len(text)
RECURSIVE Length(_)
Length(text) == IF text = <<>> THEN 0 ELSE text[1].n + Length(Tail(text))

\* text[:k]
RECURSIVE Slice(_, _)
Slice(text, k) ==
    IF text = <<>> \/ k <= 0 THEN <<>>
    ELSE IF text[1].n >= k THEN <<Run(text[1].ch, k)>>
    ELSE <<text[1]>> \o Slice(Tail(text), k - text[1].n)

\* re.sub(r"<[^>]+>", "", text) from position i on: a "<", one character or
\* more other than ">", and the first ">" after them are dropped
RECURSIVE StripFrom(_, _, _)
StripFrom(text, i, acc) ==
    IF i > Len(text) THEN acc
    ELSE LET closing == {j \in (i + 2)..Len(text) : text[j].ch = ">"}
         IN  IF text[i].ch = "<" /\ i < Len(text) /\ text[i + 1].ch # ">"
                /\ closing # {}
             THEN StripFrom(text, (CHOOSE j \in closing : \A m \in closing : j <= m) + 1, acc)
             ELSE StripFrom(text, i + 1, Join(acc, <<text[i]>>))

Strip(text) == StripFrom(text, 1, <<>>)

DescriptionCap == 300
Ellipsis == <<Run(".", 3)>>

\* variant: a text of exactly the cap is cut as well
Truncate_AtCap(clean_desc) ==
    IF Length(clean_desc) >= DescriptionCap
    THEN Join(Slice(clean_desc, DescriptionCap), Ellipsis)
    ELSE clean_desc

\* if len(clean_desc) > 300: clean_desc = clean_desc[:300] + "..."
Truncate(clean_desc) ==
    IF Length(clean_desc) > DescriptionCap
    THEN Join(Slice(clean_desc, DescriptionCap), Ellipsis)
    ELSE clean_desc

\* what the loop body appends after the link: the description line when the
\* description is not empty, then the rule that closes the post
DescriptionLines(desc) ==
    (IF desc # <<>>
     THEN <<[kind |-> "description", text |-> Truncate(Strip(desc))]>>
     ELSE <<>>)
    \o <<[kind |-> "rule", text |-> <<Run("-", 3)>>]>>

\* summaries tried: runs of letters of lengths around the cap, dots, and
\* angle brackets
DescriptionRuns ==
    {Run("a", n) : n \in {1, 2, DescriptionCap - 2, DescriptionCap - 1,
                          DescriptionCap, DescriptionCap + 1}}
    \cup {Run(".", n) : n \in {1, 3}} \cup {Run(ch, 1) : ch \in Markup}

Descriptions ==
    {d \in UNION {[1..n -> DescriptionRuns] : n \in 0..MaxRuns} :
        \A i \in 1..(Len(d) - 1) : d[i].ch = d[i + 1].ch => d[i].ch \in Markup}

InitMarkdown ==
    /\ RssOff /\ PoolOff /\ FilterOff /\ TimelineOff /\ CropOff /\ ChatOff
    /\ description \in Descriptions
    /\ shown = <<>>

FormatPost ==
    /\ shown = <<>>
    /\ shown' = DescriptionLines(description)
    /\ UNCHANGED <<rssVars, pool, filterDoc, filterPosts, description, reader, pagePc, chunk, fetched, page_results, cropCall, cropBox, chatVars>>

NextMarkdown == FormatPost

SpecMarkdown == InitMarkdown /\ [][NextMarkdown]_vars

\* ====================================================== home timeline study
\* fetch_home_for_date of masto_feed.py and of bsky_feed.py. Times are hours
\* of the local clock; an item is [created_at], None where a Bluesky item
\* carries no time.
MaxTail == 2         \* items of a page told apart
MaxPosts == 2        \* items of the target date the timeline holds
MaxFetched == 1000
TargetDay == 1

\* created_at.astimezone(local_tz).date()
LocalDate(at) == at \div HoursPerDay

\* timeline_home(limit=40, ...) / get_timeline(limit=50, ...)
PageLimit(r) == IF r = "masto" THEN 40 ELSE 50

Item(at) == [created_at |-> at]

\* the day before, the first and the last hour of the target day, the day
\* after
ItemTimes ==
    {TargetDay * HoursPerDay - 1, TargetDay * HoursPerDay,
     (TargetDay + 1) * HoursPerDay - 1, (TargetDay + 1) * HoursPerDay}

Items(r) == {Item(at) : at \in ItemTimes \cup (IF r = "bsky" THEN {None} ELSE {})}

\* a page: `pad` items of the day after the target date, then the items of
\* `tail`; the last item of tail is chunk[-1]
Page(pad, tail) == [pad |-> pad, tail |-> tail]
EmptyPage == Page(0, <<>>)
PageLen(page) == page.pad + Len(page.tail)

\* the time of the first item of a page that is not empty
Newest(page) ==
    IF page.pad > 0 THEN (TargetDay + 1) * HoursPerDay ELSE page.tail[1].created_at

\* Mastodon answers with statuses in descending order of id, which follows
\* created_at; a Bluesky timeline is ordered by the time an item entered it,
\* and the record of a reposted item keeps the time the original was written
Descending(tail) ==
    \A i \in 1..(Len(tail) - 1) : tail[i].created_at >= tail[i + 1].created_at

\* the pages tried: the empty page, full pages and pages one item short
Pages(r) ==
    {EmptyPage} \cup
    {Page(PageLimit(r) - Len(tail) - short, tail) :
        short \in {0, 1},
        tail \in {t \in UNION {[1..n -> Items(r)] : n \in 1..MaxTail} :
                    r = "masto" => Descending(t)}}

\* the items of the page that are appended to results
RECURSIVE Kept(_)
Kept(tail) ==
    IF tail = <<>> THEN <<>>
    ELSE (IF tail[1].created_at # None /\ LocalDate(tail[1].created_at) = TargetDay
          THEN <<tail[1]>> ELSE <<>>) \o Kept(Tail(tail))

\* oldest_created < target_date, oldest_created being the date of chunk[-1]
DateStop(page) ==
    /\ page.tail[Len(page.tail)].created_at # None
    /\ LocalDate(page.tail[Len(page.tail)].created_at) < TargetDay

\* results.sort(key=created_at): stable, ascending
RECURSIVE InsertByCreated(_, _)
InsertByCreated(sorted, p) ==
    IF sorted = <<>> THEN <<p>>
    ELSE IF sorted[Len(sorted)].created_at <= p.created_at THEN Append(sorted, p)
    ELSE Append(InsertByCreated(SubSeq(sorted, 1, Len(sorted) - 1), p),
                sorted[Len(sorted)])

RECURSIVE SortByCreated(_)
SortByCreated(posts) ==
    IF posts = <<>> THEN <<>>
    ELSE InsertByCreated(SortByCreated(SubSeq(posts, 1, Len(posts) - 1)),
                         posts[Len(posts)])

InitTimeline ==
    /\ RssOff /\ PoolOff /\ FilterOff /\ MarkdownOff /\ CropOff /\ ChatOff
    /\ reader \in {"masto", "bsky"}
    /\ pagePc = "loop"
    /\ chunk = EmptyPage
    /\ fetched = 0
    /\ page_results = <<>>

\* one pass of `while True`: the request is answered with a page
FetchPage(page) ==
    /\ pagePc = "loop"
    /\ reader = "masto" /\ chunk # EmptyPage /\ page # EmptyPage =>
           Newest(page) <= chunk.tail[Len(chunk.tail)].created_at
    /\ Len(page_results) + Len(Kept(page.tail)) <= MaxPosts
    /\ LET got == page_results \o Kept(page.tail)
           stop == \/ page = EmptyPage
                   \/ DateStop(page)
                   \/ fetched + PageLen(page) >= MaxFetched
       IN  /\ chunk' = page
           /\ fetched' = fetched + PageLen(page)
           /\ page_results' = IF stop THEN SortByCreated(got) ELSE got
           /\ pagePc' = IF stop THEN "returned" ELSE "loop"
    /\ UNCHANGED <<rssVars, pool, filterDoc, filterPosts, description, shown, reader, cropCall, cropBox, chatVars>>

\* the request raises: bsky_feed prints the error, leaves the loop and
\* returns what it has; masto_feed has no handler
FetchFails ==
    /\ pagePc = "loop"
    /\ pagePc' = IF reader = "bsky" THEN "returned" ELSE "raised"
    /\ page_results' = IF reader = "bsky" THEN SortByCreated(page_results) ELSE page_results
    /\ UNCHANGED <<rssVars, pool, filterDoc, filterPosts, description, shown,
                   reader, chunk, fetched, cropCall, cropBox, chatVars>>

NextTimeline ==
    \/ \E page \in Pages(reader) : FetchPage(page)
    \/ FetchFails

SpecTimeline == InitTimeline /\ [][NextTimeline]_vars

\* ============================================================ crop box study
\* get_centered_crop_box of auto_crop.py. A box is <<left, top, right, bottom>>.
MaxSide == 4         \* largest image width and height
MaxPadding == 1

Max(a, b) == IF a > b THEN a ELSE b
Min(a, b) == IF a < b THEN a ELSE b

get_centered_crop_box(bbox, original_size, center_of_mass, padding) ==
    LET left == bbox[1]
        top == bbox[2]
        right == bbox[3]
        bottom == bbox[4]
        orig_width == original_size[1]
        orig_height == original_size[2]
        obj_width == right - left
        obj_height == bottom - top
        \* `if center_of_mass:` is false for None only
        obj_center_x == IF center_of_mass # <<>> THEN center_of_mass[1]
                        ELSE left + obj_width \div 2
        obj_center_y == IF center_of_mass # <<>> THEN center_of_mass[2]
                        ELSE top + obj_height \div 2
        square_size == Min(Max(obj_width, obj_height) + 2 * padding,
                           Min(orig_width, orig_height))
        half_square == square_size \div 2
        new_left == Max(0, obj_center_x - half_square)
        new_top == Max(0, obj_center_y - half_square)
        new_right == Min(orig_width, new_left + square_size)
        new_bottom == Min(orig_height, new_top + square_size)
    IN  <<IF new_right - new_left < square_size
          THEN Max(0, new_right - square_size) ELSE new_left,
          IF new_bottom - new_top < square_size
          THEN Max(0, new_bottom - square_size) ELSE new_top,
          new_right, new_bottom>>

\* center_of_mass: None, or a pixel of the box
Centers(bbox) ==
    {<<>>} \cup ((bbox[1]..(bbox[3] - 1)) \X (bbox[2]..(bbox[4] - 1)))

\* what crop_image passes: the size of the image, the box of the content
\* found in it, which is not empty, the center of mass of the same content,
\* and the padding
InitCrop ==
    /\ RssOff /\ PoolOff /\ FilterOff /\ MarkdownOff /\ TimelineOff /\ ChatOff
    /\ \E w \in 1..MaxSide, h \in 1..MaxSide, p \in 0..MaxPadding :
       \E l \in 0..(w - 1), t \in 0..(h - 1) :
       \E r \in (l + 1)..w, b \in (t + 1)..h :
       \E c \in Centers(<<l, t, r, b>>) :
          cropCall = [bbox |-> <<l, t, r, b>>, original_size |-> <<w, h>>,
                      center_of_mass |-> c, padding |-> p]
    /\ cropBox = <<>>

CropBox ==
    /\ cropBox = <<>>
    /\ cropBox' = get_centered_crop_box(cropCall.bbox, cropCall.original_size,
                                        cropCall.center_of_mass, cropCall.padding)
    /\ UNCHANGED <<rssVars, pool, filterDoc, filterPosts, description, shown,
                   reader, pagePc, chunk, fetched, page_results, cropCall, chatVars>>

NextCrop == CropBox

SpecCrop == InitCrop /\ [][NextCrop]_vars

\* ================================================================ chat study
\* ChatApp of timeweb_llm_chat.py. The Input widget posts Input.Submitted to
\* the message queue when Enter is pressed; the app handles the messages one
\* at a time, later. A worker is the coroutine get_llm_response; its request
\* runs in a thread of asyncio.to_thread.
MaxSubmits == 3      \* submissions in one session

\* event.value: some text, or nothing but white space
SubmittedValues == {"text", "blank"}

\* what get_llm_answer gives: a dict with "message" and "response_id", an
\* exception of requests, a dict without "message", a dict without
\* "response_id"
Answers == {"ok", "raise", "no-message", "no-id"}

WorkersIn(states) == {w \in 1..Len(workers) : workers[w] \in states}

InitChat ==
    /\ RssOff /\ PoolOff /\ FilterOff /\ MarkdownOff /\ TimelineOff /\ CropOff
    /\ submitted = <<>>
    /\ input_disabled = FALSE
    /\ loading_message = None
    /\ mounted = {}
    /\ workers = <<>>
    /\ inflight = {}
    /\ parent_message_id = None

chatOthers ==
    <<rssVars, pool, filterDoc, filterPosts, description, shown, reader, pagePc,
      chunk, fetched, page_results, cropCall, cropBox>>

\* Enter in the input field: a disabled widget takes no keys
PressEnter(value) ==
    /\ ~input_disabled
    /\ Len(submitted) + Len(workers) < MaxSubmits
    /\ submitted' = Append(submitted, value)
    /\ UNCHANGED <<input_disabled, loading_message, mounted, workers, inflight,
                   parent_message_id, chatOthers>>

\* handle_message_submitted for the oldest message of the queue;
\* run_worker(..., exclusive=True) cancels the workers still running
HandleSubmitted ==
    /\ submitted # <<>>
    /\ submitted' = Tail(submitted)
    /\ IF Head(submitted) = "blank"
       THEN UNCHANGED <<input_disabled, loading_message, mounted, workers>>
       ELSE LET w == Len(workers) + 1
            IN  /\ input_disabled' = TRUE
                /\ loading_message' = w
                /\ mounted' = mounted \cup {w}
                /\ workers' =
                       Append([v \in 1..Len(workers) |->
                                  IF workers[v] = "pending" THEN "cancelled"
                                  ELSE IF workers[v] = "request" THEN "cancelling"
                                  ELSE workers[v]],
                              "pending")
    /\ UNCHANGED <<inflight, parent_message_id, chatOthers>>

\* the worker runs up to `await asyncio.to_thread(get_llm_answer, ...)`: the
\* thread sends the request
StartWorker(w) ==
    /\ workers[w] = "pending"
    /\ workers' = [workers EXCEPT ![w] = "request"]
    /\ inflight' = inflight \cup {w}
    /\ UNCHANGED <<submitted, input_disabled, loading_message, mounted,
                   parent_message_id, chatOthers>>

\* the request of worker w ends with answer a. The worker that still waits
\* for it goes on: try, except and finally of get_llm_response; a cancelled
\* worker has left the await, the answer is dropped
Answer(w, a) ==
    /\ w \in inflight
    /\ inflight' = inflight \ {w}
    /\ IF workers[w] = "request"
       THEN /\ workers' = [workers EXCEPT ![w] = "done"]
            /\ mounted' = IF loading_message # None
                           THEN mounted \ {loading_message} ELSE mounted
            /\ loading_message' = None
            /\ parent_message_id' = IF a = "ok" THEN w ELSE parent_message_id
            /\ input_disabled' = FALSE
       ELSE UNCHANGED <<workers, mounted, loading_message, parent_message_id,
                        input_disabled>>
    /\ UNCHANGED <<submitted, chatOthers>>

\* CancelledError is raised at the await of a cancelled worker: it is no
\* Exception, so only the finally block runs
Cancelled(w) ==
    /\ workers[w] = "cancelling"
    /\ workers' = [workers EXCEPT ![w] = "cancelled"]
    /\ input_disabled' = FALSE
    /\ UNCHANGED <<submitted, loading_message, mounted, inflight,
                   parent_message_id, chatOthers>>

NextChat ==
    \/ \E value \in SubmittedValues : PressEnter(value)
    \/ HandleSubmitted
    \/ \E w \in 1..Len(workers) : StartWorker(w)
    \/ \E w \in 1..Len(workers), a \in Answers : Answer(w, a)
    \/ \E w \in 1..Len(workers) : Cancelled(w)

SpecChat == InitChat /\ [][NextChat]_vars

\* =================================================================== claims
Tasks == 1..Len(tasks)
ToSet(q) == {q[j] : j \in 1..Len(q)}
Last(q) == q[Len(q)]
Resolved(k) == pc[k] \in {"returned", "raised"}
\* the last answer to task k was a success / a failure of the named class
Succeeded(k) == hist[k] # <<>> /\ Raised(Last(hist[k])) = "none"
Failed(k) == Resolved(k) /\ ~Succeeded(k)

\* C1: every post of the final report lies in the half-open day
\* [midnight of the requested date, midnight + one day)
C1_ReportInWindow ==
    mainPc = "done" =>
        \A j \in 1..Len(all_posts) :
            /\ Midnight(date_str) <= all_posts[j].published
            /\ all_posts[j].published < Midnight(date_str) + HoursPerDay

\* a report holding a post of the first and a post of the last hour of the day
C1_Witness ==
    /\ mainPc = "done"
    /\ \E a, b \in 1..Len(all_posts) :
          /\ all_posts[a].published = Midnight(date_str)
          /\ all_posts[b].published = Midnight(date_str) + HoursPerDay - 1

\* C2: the merged list is sorted non-decreasing by published
C2_ReportSorted ==
    mainPc = "done" =>
        \A a, b \in 1..Len(all_posts) :
            a < b => all_posts[a].published <= all_posts[b].published

\* a report in which the sort moved a post of a later feed ahead of a post
\* of an earlier feed
C2_Witness ==
    /\ mainPc = "done"
    /\ \E a, b \in 1..Len(all_posts) :
          /\ a < b
          /\ all_posts[a].feed > all_posts[b].feed
          /\ all_posts[a].published < all_posts[b].published

\* C3: one coroutine per feed of the subscription, in order, and one
\* collected outcome per feed: none dropped, none twice
C3_OneTaskOneOutcomePerFeed ==
    /\ mainPc \in {"gather", "done"} =>
          /\ Len(tasks) = Len(feeds)
          /\ \A f \in 1..Len(feeds) :
                Cardinality({k \in Tasks : tasks[k] = feeds[f].url}) = 1
    /\ mainPc = "done" =>
          /\ \A f \in 1..Len(feeds) :
                Cardinality({j \in 1..Len(collected) : collected[j] = feeds[f].url}) = 1
          /\ Len(collected) = Len(feeds)
          /\ \A k \in Tasks : Resolved(k) /\ result[k].type # "none"

\* a finished run of several feeds, one failed and one retried
C3_Witness ==
    /\ mainPc = "done"
    /\ Len(feeds) >= 2
    /\ \E k, m \in Tasks : k # m /\ Failed(k) /\ requests[m] >= 2 /\ Succeeded(m)

\* C4: the merged list is exactly the in-window entries of the feeds whose
\* fetch succeeded, each once; a failed feed contributes nothing
C4_ReportIsUnionOfSucceeded ==
    mainPc = "done" =>
        /\ ToSet(all_posts) = UNION {served[k] : k \in {m \in Tasks : Succeeded(m)}}
        /\ Cardinality(ToSet(all_posts)) = Len(all_posts)
        /\ \A k \in Tasks : Failed(k) =>
              \A j \in 1..Len(all_posts) : all_posts[j].feed # tasks[k]

\* the first feed answers 404, the second brings two posts
C4_Witness ==
    /\ mainPc = "done"
    /\ Len(feeds) >= 2
    /\ hist[1] = <<HttpResp(404)>>
    /\ Succeeded(2)
    /\ Len(all_posts) = 2
    /\ Len(IF silent THEN errors_list ELSE taskErr[1]) = 1

\* the lines written about the feed of task k: in errors_list when silent,
\* on sys.stderr otherwise
LinesOf(k) ==
    IF silent
    THEN SelectSeq(errors_list, LAMBDA l : l.url = tasks[k])
    ELSE taskErr[k]
ErrorsOf(k) == SelectSeq(LinesOf(k), LAMBDA l : l.kind = "error")
\* task k ended as a failure: an empty list, and one error for its feed
FailureOutcome(k) ==
    /\ pc[k] = "returned"
    /\ result[k] = ListResult(<<>>)
    /\ Len(ErrorsOf(k)) = 1
    /\ Last(LinesOf(k)).kind = "error"
Transient(r) == r.exc \in {"TimeoutException", "ConnectError", "SSLError"}

\* C5: an HTTP error status is never retried: the coroutine ends at once
\* with a failure outcome, issues no further request and does not sleep
C5_HttpStatusNotRetried ==
    \A k \in Tasks :
        (hist[k] # <<>> /\ Raised(Last(hist[k])) = "HTTPStatusError") =>
            /\ FailureOutcome(k)
            /\ Last(ErrorsOf(k)).status = Last(hist[k]).status
            /\ requests[k] = Len(hist[k])
            /\ Len(slept[k]) = Len(hist[k]) - 1

\* a feed answered 429 on its first request: one request, no sleep, resolved
C5_Witness ==
    \E k \in Tasks :
        /\ hist[k] = <<HttpResp(429)>>
        /\ pc[k] = "returned"
        /\ requests[k] = 1
        /\ slept[k] = <<>>

\* C6: a timeout, connection or TLS failure is retried while fewer than
\* max_retries retries were made; a feed failing so on every attempt is
\* requested max_retries + 1 times, never more, and ends as a failure
C6_TransientRetriedUpToMax ==
    \A k \in Tasks :
        /\ requests[k] <= MaxRetries + 1
        /\ \A j \in 1..Len(hist[k]) :
              (Transient(hist[k][j]) /\ j <= MaxRetries) =>
                  (requests[k] > j \/ pc[k] = "sleep")
        /\ (Resolved(k) /\ \A j \in 1..Len(hist[k]) : Transient(hist[k][j])) =>
              /\ requests[k] = MaxRetries + 1
              /\ FailureOutcome(k)

\* a feed that met a timeout, a connection failure and a TLS failure in turn
C6_Witness ==
    \E k \in Tasks :
        /\ hist[k] = <<ExcResp("TimeoutException"), ExcResp("ConnectError"),
                       ExcResp("SSLError")>>
        /\ pc[k] = "returned"
        /\ requests[k] = MaxRetries + 1

\* C7: two timeouts and then a success: the outcome is the list of the
\* in-window entries, and no error is recorded for the feed
C7_SuccessAfterTwoTimeouts ==
    \A k \in Tasks :
        hist[k] = <<ExcResp("TimeoutException"), ExcResp("TimeoutException"), OkResp>> =>
            /\ pc[k] = "returned"
            /\ result[k].type = "list"
            /\ ToSet(result[k].posts) = served[k]
            /\ Len(result[k].posts) = Cardinality(served[k])
            /\ \A j \in 1..Len(LinesOf(k)) : LinesOf(k)[j].kind = "retry"
            /\ silent => LinesOf(k) = <<>>

\* such a feed, bringing two posts on the third attempt
C7_Witness ==
    \E k \in Tasks :
        /\ hist[k] = <<ExcResp("TimeoutException"), ExcResp("TimeoutException"), OkResp>>
        /\ Len(result[k].posts) = 2
        /\ requests[k] = 3

C11_JoinAllBarrier ==
    mainPc \in {"done", "raised"} =>
        \A k \in Tasks :
            /\ Resolved(k)
            /\ result[k] # NoResult
            /\ Len(slept[k]) = attempt[k]
            /\ requests[k] = Len(hist[k])

\* a merged run of two feeds, of which the first one backed off twice
C11_Witness ==
    /\ mainPc = "done"
    /\ Len(tasks) = 2
    /\ slept[1] = <<2, 4>>
    /\ requests[2] = 1
    /\ all_posts # <<>>

\* C12 as stated: no coroutine writes a shared buffer; the posts and the
\* errors are accumulated by read_posts_for_date alone, after every
\* coroutine is resolved
C12_TasksWriteNoSharedBuffer ==
    [][(errors_list' # errors_list \/ all_posts' # all_posts) =>
          (mainPc = "gather" /\ \A k \in Tasks : Resolved(k))]_vars

\* C12, amended: the posts are accumulated by read_posts_for_date alone,
\* after every coroutine is resolved; the shared errors_list is also written
\* by the coroutines, in silent mode only: a coroutine that gives its feed up
\* appends one error line of its own URL while others may still be running
C12_OnlyErrorsAreShared ==
    [][/\ (all_posts' # all_posts \/ collected' # collected) =>
             (mainPc = "gather" /\ \A k \in Tasks : Resolved(k))
       /\ (errors_list' # errors_list /\ mainPc' = mainPc) =>
             /\ silent
             /\ Len(errors_list') = Len(errors_list) + 1
             /\ SubSeq(errors_list', 1, Len(errors_list)) = errors_list
             /\ \E k \in Tasks :
                   /\ pc[k] = "get"
                   /\ pc'[k] = "returned"
                   /\ result'[k] = ListResult(<<>>)
                   /\ Last(errors_list').url = tasks[k]
                   /\ Last(errors_list').kind = "error"]_vars

\* a silent run in which one coroutine has put its error into the shared
\* list while another one is still waiting for its answer
C12_Witness ==
    /\ silent
    /\ mainPc = "gather"
    /\ \E k \in Tasks : pc[k] = "get"
    /\ \E j \in Tasks : pc[j] = "returned" /\ \E i \in 1..Len(errors_list) :
                                                 errors_list[i].url = tasks[j]

\* C13: every error that is recorded or printed for a failed feed carries the
\* URL of the feed that produced it, on every failure path: the lines of the
\* except handlers of a coroutine, and the lines of the join loop for a
\* coroutine that ended with an exception
C13_EveryErrorNamesItsFeed ==
    /\ \A i \in 1..Len(errors_list) :
          errors_list[i].url \in {tasks[k] : k \in Tasks}
    /\ \A k \in Tasks : \A i \in 1..Len(taskErr[k]) :
          taskErr[k][i].url = tasks[k]
    /\ \A i \in 1..Len(mainErr) :
          mainErr[i].url \in {tasks[k] : k \in Tasks}

\* the lines of `output` that belong to the report, and those on sys.stderr
IsReportLine(l) ==
    l.stream = "stdout"
        /\ l.kind \in {"heading", "total", "rule", "found", "equals", "post", "none-found"}
ReportLines == {i \in 1..Len(output) : IsReportLine(output[i])}
ErrorLines == {i \in 1..Len(output) : output[i].stream = "stderr"}
PostLines == SelectSeq(output, LAMBDA l : l.kind = "post")
ReportPrinted == ReportLines # {}
\* the report shows every merged post, in order, or says that there is none
ReportComplete ==
    /\ Len(PostLines) = Len(all_posts)
    /\ \A j \in 1..Len(PostLines) : PostLines[j].arg = j
    /\ all_posts = <<>> => \E i \in ReportLines : output[i].kind = "none-found"

\* C14 as stated: in verbose and in silent mode alike the errors of failed
\* feeds are emitted after the listing and the listing is never withheld
C14_ErrorsAfterListing ==
    /\ \A k \in Tasks : \A i \in 1..Len(taskErr[k]) :
          taskErr[k][i].kind = "error" => ReportPrinted
    /\ \A i \in ErrorLines : \A j \in ReportLines : j < i
    /\ mainPc = "done" => ReportPrinted

\* C14, amended: in silent mode every error line follows the whole listing;
\* in verbose mode a coroutine prints the error of its feed when it gives the
\* feed up, which is before the listing, and the join prints its errors
\* before the listing too.  In both modes and both formats no error line
\* stands between two lines of the listing, and the listing of a finished
\* run is complete whatever failed.
C14_ErrorsAroundListing ==
    [][/\ (\E k \in Tasks : taskErr'[k] # taskErr[k]) => (~silent /\ ~ReportPrinted')
       /\ \A i \in ErrorLines' : \A j \in ReportLines' :
             IF silent THEN j < i ELSE i < j
       /\ mainPc' = "done" => (ReportPrinted' /\ ReportComplete')]_vars

\* a finished verbose run: one feed failed and its error was printed by the
\* coroutine, the other feed's post is listed
C14_Witness ==
    /\ mainPc = "done"
    /\ ~silent
    /\ \E k \in Tasks : \E i \in 1..Len(taskErr[k]) : taskErr[k][i].kind = "error"
    /\ Len(PostLines) >= 1

\* the lines of the error summary, and the feed each of them is about
SummaryEntries == {i \in 1..Len(output) : output[i].kind = "summary-entry"}
ProgressKinds == {"searching", "dashes", "queued", "loading", "found", "equals", "hint"}

\* C15: in silent mode the pipeline prints no progress or status line and no
\* error line before the report; a retry warning is printed nowhere; when
\* the run is finished the error summary stands after the report and holds
\* exactly one entry for each feed that was given up and none for a feed
\* that succeeded
C15_SilentDefersErrors ==
    (silent /\ mainPc \in {"gather", "done"}) =>
        /\ \A i \in 1..Len(output) : output[i].kind \notin ProgressKinds
        /\ \A k \in Tasks : taskErr[k] = <<>>
        /\ mainErr = <<>>
        /\ \A i \in 1..Len(errors_list) : errors_list[i].kind = "error"
        /\ mainPc = "gather" => output = <<>>
        /\ \A i \in ErrorLines : \A j \in ReportLines : j < i
        /\ mainPc = "done" =>
              /\ ReportPrinted
              /\ \A k \in Tasks :
                    Cardinality({i \in SummaryEntries :
                                    errors_list[output[i].arg].url = tasks[k]})
                        = (IF Failed(k) THEN 1 ELSE 0)
              /\ Cardinality(SummaryEntries) = Cardinality({k \in Tasks : Failed(k)})

\* a finished silent run: the first feed timed out three times and has its
\* one entry in the summary, the second feed's post is in the report
C15_Witness ==
    /\ silent
    /\ mainPc = "done"
    /\ Len(tasks) = 2
    /\ Len(hist[1]) = MaxRetries + 1 /\ Failed(1)
    /\ Succeeded(2) /\ Len(PostLines) >= 1
    /\ Cardinality(SummaryEntries) = 1

\* C16: whenever the merged list is empty (every feed failed, no entry lies
\* in the window, or the subscription list is empty) the report says on
\* sys.stdout that no post was found, in plain and in markdown format, with
\* and without --silent; the formats that show a count show 0.  With an
\* empty subscription list no error is reported.
C16_EmptyReportSaysSo ==
    (mainPc = "done" /\ all_posts = <<>>) =>
        /\ Cardinality({i \in 1..Len(output) :
              output[i].stream = "stdout" /\ output[i].kind = "none-found"}) = 1
        /\ \A i \in 1..Len(output) :
              output[i].kind \in {"total", "found"} => output[i].arg = 0
        /\ PostLines = <<>>
        /\ feeds = <<>> =>
              /\ ErrorLines = {}
              /\ errors_list = <<>>
              /\ mainErr = <<>>

\* a finished silent run in plain format in which the only feed failed: the
\* output is the statement and the error summary, nothing else
C16_Witness ==
    /\ mainPc = "done"
    /\ silent
    /\ Len(tasks) = 1 /\ Failed(1)
    /\ all_posts = <<>>
    /\ output[1] = Out("stdout", "none-found", 0)
    /\ Cardinality(SummaryEntries) = 1

\* C17: when the OPML path names no file, or a file that cannot be parsed,
\* the process ends with exit code 1 and one message on sys.stderr; no
\* coroutine is created, no request issued, and nothing is printed to
\* sys.stdout, so no part of a report
C17_BadFileIsFatal ==
    opml_file # "ok" =>
        /\ mainPc \in {"main", "exit1"}
        /\ tasks = <<>> /\ requests = <<>>
        /\ mainPc = "main" => output = <<>>
        /\ mainPc = "exit1" =>
              /\ Len(output) = 1
              /\ output[1].stream = "stderr"
              /\ output[1].kind \in {"not-found", "ParseError", "Exception"}

\* the run over a file that is not well-formed XML has ended with exit code
\* 1 and the parse error on sys.stderr
C17_Witness ==
    /\ opml_file = "malformed"
    /\ mainPc = "exit1"
    /\ output = <<Out("stderr", "ParseError", 0)>>

\* C18: when the --read argument is not a date (the file being a good one)
\* the process ends with a non-zero exit code and a message on sys.stderr;
\* no coroutine is created, no request issued, and no report or progress
\* line printed
C18_BadDateIsFatal ==
    (opml_file = "ok" /\ (date_str = <<>> \/ ~ValidDate(date_str))) =>
        /\ mainPc \in {"main", "start", "exit1"}
        /\ tasks = <<>> /\ requests = <<>>
        /\ mainPc # "exit1" => output = <<>>
        /\ mainPc = "exit1" => output = <<Out("stderr", "bad-date", 0)>>

\* C19: the feed_title of a post identifies the one feed of the
\* subscription list from whose URL the post was fetched, also when two
\* channels have the same title or a channel has none: posts of different
\* feeds never carry the same feed_title
C19_FeedTitleIdentifiesFeed ==
    mainPc = "done" =>
        \A i, j \in 1..Len(all_posts) :
            all_posts[i].feed_title = all_posts[j].feed_title
                => all_posts[i].feed = all_posts[j].feed

\* the order of the report as a relation on posts: by published time, posts
\* of equal time by the place of their feed in the subscription list, then
\* by the place of the entry in its document
Precedes(p, q) ==
    \/ p.published < q.published
    \/ /\ p.published = q.published
       /\ \/ p.feed < q.feed
          \/ p.feed = q.feed /\ p.entry < q.entry

\* C20: the merged posts of a finished run are a function of the
\* subscription list, the window and the documents the feeds served, and of
\* nothing else: all_posts holds exactly the in-window entries of the served
\* documents, each once, in the one order fixed by Precedes.  Two runs that
\* are served the same documents therefore yield the same posts, in whatever
\* order their fetches were scheduled, retried and completed.
C20_PostsDependOnResponsesOnly ==
    mainPc = "done" =>
        /\ ToSet(all_posts) = UNION {served[k] : k \in Tasks}
        /\ Len(all_posts) = Cardinality(UNION {served[k] : k \in Tasks})
        /\ \A i, j \in 1..Len(all_posts) :
              i < j => Precedes(all_posts[i], all_posts[j])

\* a finished run of two feeds, one of them answered at its second attempt
\* only, whose posts of the same hour stand in the report in feed order
C20_Witness ==
    /\ mainPc = "done"
    /\ Len(tasks) = 2
    /\ \E k \in Tasks : requests[k] = 2
    /\ Len(all_posts) = 2
    /\ all_posts[1].feed = 1 /\ all_posts[2].feed = 2
    /\ all_posts[1].published = all_posts[2].published

\* C21: a slow feed does not turn the outcome of another feed into a
\* failure, also when there are more feeds than connections: in a run in
\* which every feed is healthy (slow at most), no coroutine gives its feed up
C21_SlowFeedsFailNoOther ==
    pool # <<>> => pool[PoolState("failed", 0)] = 0

\* C22: at every moment at most max_connections = 5 connections are in use,
\* however many feeds are subscribed; a request made while five are in use
\* waits for a free connection
C22_AtMostFiveConnections ==
    pool # <<>> =>
        /\ OpenConnections <= MaxConnections
        /\ OpenConnections <= 5

\* five requests hold a connection each and a sixth one waits
C22_Witness ==
    /\ pool # <<>>
    /\ OpenConnections = 5
    /\ pool[PoolState("waiting", 0)] = 1

\* the process has ended: after the report, after a fatal error, or after
\* the hints
Terminated == mainPc \in {"done", "exit1", "hint"}

\* the steps a coroutine can still take: a request and a sleep per attempt
\* that is left
TaskRank(k) ==
    CASE pc[k] = "created" -> 2 * (MaxRetries + 1)
      [] pc[k] = "get" -> 2 * (MaxRetries - attempt[k]) + 1
      [] pc[k] = "sleep" -> 2 * (MaxRetries - attempt[k])
      [] OTHER -> 0
RECURSIVE SumTaskRank(_)
SumTaskRank(k) == IF k > Len(tasks) THEN 0 ELSE TaskRank(k) + SumTaskRank(k + 1)
\* the steps the whole run can still take
Rank ==
    CASE mainPc = "main" -> Len(feeds) * 2 * (MaxRetries + 1) + 3
      [] mainPc = "start" -> Len(feeds) * 2 * (MaxRetries + 1) + 2
      [] mainPc = "gather" -> SumTaskRank(1) + 1
      [] OTHER -> 0

\* a step can be taken, by the guards of the actions: Main or Launch; or
\* StartTask, Respond or Wake of a coroutine that is not resolved; or Merge
StepEnabled ==
    \/ mainPc \in {"main", "start"}
    \/ /\ mainPc = "gather"
       /\ \/ GatherDone(pc)
          \/ \E k \in Tasks :
                \/ pc[k] \in {"created", "sleep"}
                \/ pc[k] = "get" /\ faults # {}

\* C23: every run ends.  No coroutine issues more than max_retries + 1
\* requests; every step of the run lowers the number of steps that are left,
\* so no coroutine retries for ever; and a run that has not ended always has
\* a step to take, so the join is never stuck: when every request is ended by
\* its answer or its timeout and every sleep ends, the report is printed and
\* the process ends
C23_RunTerminates ==
    /\ [](\A k \in Tasks : requests[k] <= MaxRetries + 1 /\ Len(slept[k]) <= MaxRetries)
    /\ [](~Terminated => StepEnabled)
    /\ [][Rank' < Rank]_vars

\* a finished run in which one feed used all its attempts and was given up
\* and another one was answered at its last attempt
C23_Witness ==
    /\ mainPc = "done"
    /\ Len(tasks) = 2
    /\ requests[1] = MaxRetries + 1 /\ Failed(1)
    /\ requests[2] = MaxRetries + 1 /\ Succeeded(2)

\* the entries of the filtered document, and whether an entry is dated
FilterEntryAt(j) == filterDoc.entries[j]
Dated(e) == e.published_parsed # None \/ e.updated_parsed # None
\* the time C24 gives an entry: published when present, updated otherwise
ResolvedTime(e) ==
    IF e.published_parsed # None THEN e.published_parsed ELSE e.updated_parsed

\* C24: the time of an entry is its published time when it has one and its
\* updated time only otherwise; the feed's outcome is the list of exactly the
\* dated entries whose time lies in the window, in document order, each with
\* that time; an entry without either time is left out, while the outcome
\* stays a list (no failure, no error line) and keeps the other entries
C24_PublishedElseUpdated ==
    filterPosts # <<>> /\ filterPosts # NoResult =>
        /\ filterPosts.type = "list"
        /\ Sink("posts", TRUE) = "nowhere" /\ Sink("posts", FALSE) = "nowhere"
        /\ \A j \in 1..Len(filterDoc.entries) :
              (\E i \in 1..Len(filterPosts.posts) : filterPosts.posts[i].entry = j)
                  <=> /\ Dated(FilterEntryAt(j))
                      /\ FilterWindow[1] <= ResolvedTime(FilterEntryAt(j))
                      /\ ResolvedTime(FilterEntryAt(j)) < FilterWindow[2]
        /\ \A i \in 1..Len(filterPosts.posts) :
              filterPosts.posts[i].published
                  = ResolvedTime(FilterEntryAt(filterPosts.posts[i].entry))
        /\ \A i, j \in 1..Len(filterPosts.posts) :
              i < j => filterPosts.posts[i].entry < filterPosts.posts[j].entry

\* a document of an entry without any time and an entry that has only an
\* updated time, in the window: the outcome is the second entry alone
C24_Witness ==
    /\ filterPosts # <<>> /\ filterPosts # NoResult
    /\ Len(filterDoc.entries) = 2
    /\ ~Dated(FilterEntryAt(1))
    /\ FilterEntryAt(2) = Entry(None, FilterWindow[1])
    /\ Len(filterPosts.posts) = 1
    /\ filterPosts.posts[1].entry = 2

\* the exceptions of a URL that cannot be requested at all
UrlErrors == {"UnsupportedProtocol", "InvalidURL"}

\* C25: a request that ends with UnsupportedProtocol or InvalidURL is the
\* coroutine's last one: the coroutine is resolved at once with a failure
\* outcome and one error line of the matching clause, and does not sleep for
\* it; when it is the answer to the first request, as for a feed whose URL is
\* malformed, exactly one attempt is made and no sleep occurs at all
C25_UrlErrorsNotRetried ==
    \A k \in Tasks : \A i \in 1..Len(hist[k]) :
        Raised(hist[k][i]) \in UrlErrors =>
            /\ i = Len(hist[k])
            /\ FailureOutcome(k)
            /\ Last(LinesOf(k)).clause = Raised(hist[k][i])
            /\ requests[k] = i
            /\ Len(slept[k]) = i - 1
            /\ i = 1 => (requests[k] = 1 /\ slept[k] = <<>> /\ attempt[k] = 0)

\* the only feed has a malformed URL: one request, no sleep, one error
C25_Witness ==
    /\ mainPc = "done"
    /\ Len(tasks) = 1
    /\ hist[1] = <<ExcResp("InvalidURL")>>
    /\ requests[1] = 1 /\ slept[1] = <<>>
    /\ FailureOutcome(1)

\* the place of a post's feed in the subscription list
FeedPlace(p) == CHOOSE k \in 1..Len(feeds) : feeds[k].url = p.feed

\* C26: the sort is stable: posts of equal published time stand in the
\* report in arrival order, i.e. in the order of their feeds in the
\* subscription list and, within a feed, of their entries in the document,
\* whichever fetch finished first
C26_TiesInArrivalOrder ==
    mainPc = "done" =>
        \A i, j \in 1..Len(all_posts) :
            (i < j /\ all_posts[i].published = all_posts[j].published) =>
                \/ FeedPlace(all_posts[i]) < FeedPlace(all_posts[j])
                \/ /\ all_posts[i].feed = all_posts[j].feed
                   /\ all_posts[i].entry < all_posts[j].entry

\* three posts of the same hour: the first feed was answered at its third
\* attempt only and has two of them, the second feed was answered at once;
\* the report has the first feed's two entries, in order, then the second's
C26_Witness ==
    /\ mainPc = "done"
    /\ Len(tasks) = 2
    /\ requests[1] = MaxRetries + 1 /\ requests[2] = 1
    /\ Len(all_posts) = 3
    /\ all_posts[1].published = all_posts[3].published
    /\ <<all_posts[1].feed, all_posts[1].entry>> = <<1, 1>>
    /\ <<all_posts[2].feed, all_posts[2].entry>> = <<1, 2>>
    /\ all_posts[3].feed = 2

\* the i-th character of a text
RECURSIVE CharAt(_, _)
CharAt(text, i) == IF i <= text[1].n THEN text[1].ch ELSE CharAt(Tail(text), i - text[1].n)

Smaller(a, b) == IF a < b THEN a ELSE b

\* the description line among the lines appended for the post
DescriptionShown == shown[1].text

\* C27: the description shown is the first 300 characters at most of the
\* tag-stripped description; the three dots follow them exactly when the
\* stripped description has more than 300 characters, and a stripped
\* description of 300 characters or fewer is shown whole
C27_DescriptionCappedAt300 ==
    (shown # <<>> /\ description # <<>>) =>
        LET clean == Strip(description)
            long == Length(clean) > DescriptionCap
        IN  /\ shown[1].kind = "description"
            /\ \A i \in 1..Smaller(Length(clean), DescriptionCap) :
                   CharAt(DescriptionShown, i) = CharAt(clean, i)
            /\ long => /\ Length(DescriptionShown) = DescriptionCap + 3
                       /\ \A i \in 1..3 : CharAt(DescriptionShown, DescriptionCap + i) = "."
            /\ ~long => DescriptionShown = clean

\* a summary of a tag and 301 letters: 301 characters once the tag is
\* stripped, shown as 300 letters and the dots
C27_Witness ==
    /\ description = <<Run("<", 1), Run("a", 1), Run(">", 1),
                       Run("a", DescriptionCap + 1)>>
    /\ shown # <<>>
    /\ DescriptionShown = <<Run("a", DescriptionCap), Run(".", 3)>>

\* some item of the page is older than the target date
SomeItemOlder(page) ==
    \E i \in 1..Len(page.tail) :
        /\ page.tail[i].created_at # None
        /\ LocalDate(page.tail[i].created_at) < TargetDay

\* C28 (as stated): the readers terminate, and pagination stops when the
\* oldest item of a page is older than the target date: no further request
\* follows such a page
C28_StopsWhenOldestIsOlder ==
    (pagePc = "loop" /\ chunk # EmptyPage) => ~SomeItemOlder(chunk)

\* C29 (as stated): the box returned is a square inside the image, not
\* empty, and it contains the bounding box of the object whenever that box
\* is no wider and no higher than the square
C29_CropKeepsTheObject ==
    cropBox # <<>> =>
        LET side == cropBox[3] - cropBox[1]
        IN  /\ cropBox[4] - cropBox[2] = side
            /\ 0 <= cropBox[1] /\ cropBox[1] < cropBox[3]
            /\ cropBox[3] <= cropCall.original_size[1]
            /\ 0 <= cropBox[2] /\ cropBox[2] < cropBox[4]
            /\ cropBox[4] <= cropCall.original_size[2]
            /\ (/\ cropCall.bbox[3] - cropCall.bbox[1] <= side
                /\ cropCall.bbox[4] - cropCall.bbox[2] <= side) =>
                   /\ cropBox[1] <= cropCall.bbox[1] /\ cropCall.bbox[3] <= cropBox[3]
                   /\ cropBox[2] <= cropCall.bbox[2] /\ cropCall.bbox[4] <= cropBox[4]

\* C30 (as stated): at most one request is in flight at any time, and the
\* input stays disabled from a submission until its request has finished
C30_OneRequestInFlight ==
    /\ Cardinality(inflight) <= 1
    /\ (inflight # {} \/ WorkersIn({"pending"}) # {}) => input_disabled

====
